---- MODULE Spec2Model ----
(***************************************************************************)
(* termninja server.py: the asyncio program started by Server.start().     *)
(*                                                                         *)
(* The event loop is single threaded: callbacks (task steps, the gather    *)
(* done-callbacks, the signal handler) run one at a time, in the order in  *)
(* which they were scheduled.  `ready` is that FIFO.  A task step runs the *)
(* coroutine from the await it is suspended at to its next suspension.     *)
(* Everything outside the loop (the database, peers, the kernel, timers)   *)
(* acts by completing an awaited operation, which schedules the task.      *)
(***************************************************************************)
EXTENDS Integers, Sequences, FiniteSets

\* Bounds of the model.
MaxConn == 3          \* connections that arrive
MaxHandshakeConn == 2 \* connections that arrive when peers may fail mid-handshake
MaxShutdownConn == 2  \* connections that arrive when the server is shut down
MaxSignals == 2       \* SIGINT / SIGTERM deliveries
MaxPlayerCount == 2   \* player_count is drawn from 1..MaxPlayerCount
MaxAuthConn == 1      \* connections that arrive when the token dialogue is followed
MaxTime == 1          \* expiry timestamps and the clock are drawn from 0..MaxTime

VARIABLES
    player_count,           \* Server.player_count of the concrete server class
    has_get_friendly_name,  \* does the concrete class define get_friendly_name()
    task,                   \* every asyncio task: state, await position, wake-up value, result
    ready,                  \* the loop's FIFO of scheduled callbacks
    outer,                  \* the future returned by asyncio.gather(server_task, start_games_task)
    pending_exc,            \* exception in flight while _start_serving runs its finally block
    handlers_registered,    \* loop.add_signal_handler done for SIGINT and SIGTERM
    nsig,                   \* signals delivered so far
    db_open,                \* the persistence connection is open
    connect_calls,          \* calls of db.conn.connect()
    disconnect_calls,       \* calls of db.conn.disconnect()
    listening,              \* the listening endpoint accepts connections
    nconn,                  \* connections arrived so far; connection i is Player i
    _player_queue,          \* self._player_queue
    players,                \* the list the comprehension in _start_game_task is building
    batches,                \* argument lists of the _launch_game tasks created, in order
    controller_args,        \* k -> the players controller k was constructed with
    decision,               \* i -> what should_accept_player returned for Player i
    hook_error,             \* i -> the error a hook of Player i raised in _on_connection
    closes,                 \* i -> calls of player.close() on Player i
    close_sites,            \* i -> the lines of server.py that called player.close()
    enqueued,               \* the players put on the queue, in the order of the puts
    phase,                  \* asyncio.run: "main", then "cleanup", then "closed"
    startup,                \* what _start_serving has done so far, in order
    auth                    \* i -> what the hooks of TermninjaServer did with Player i

vars == <<player_count, has_get_friendly_name, task, ready, outer, pending_exc,
          handlers_registered, nsig, db_open, connect_calls, disconnect_calls,
          listening, nconn, _player_queue, players, batches, controller_args,
          decision, hook_error, closes, close_sites, enqueued, phase, startup, auth>>

Conns == 1..MaxConn

\* Task names.  Batch k's _launch_game task is L(k), its controller.start() task C(k).
MAIN == <<"main", 0>>
SERVER == <<"server", 0>>
GAMES == <<"games", 0>>
HB == <<"heartbeat", 0>>
H(i) == <<"conn", i>>
L(k) == <<"launch", k>>
C(k) == <<"controller", k>>
Tasks == {MAIN, SERVER, GAMES, HB} \cup {H(i) : i \in Conns}
            \cup {L(k) : k \in Conns} \cup {C(k) : k \in Conns}
\* Other callbacks: the done-callback gather attaches to a child, the signal handler.
CB(t) == <<"gather_cb", IF t = SERVER THEN 1 ELSE 2>>
SIG(n) == <<"signal", n>>

\* Task records.
NoTask == [st |-> "none", pos |-> "start", wake |-> "none", res |-> "none"]
NewTask == [st |-> "ready", pos |-> "start", wake |-> "none", res |-> "none"]
Waiting(p) == [st |-> "waiting", pos |-> p, wake |-> "none", res |-> "none"]
\* A finished task keeps the position its coroutine ended at.
Done(t, r) == [st |-> "done", pos |-> task[t].pos, wake |-> "none", res |-> r]

Active(t) == task[t].st \in {"ready", "waiting"}
IsDone(t) == task[t].st = "done"
\* The callback at the head of the FIFO is the one the loop runs next.
Runs(e) == phase # "closed" /\ ready # <<>> /\ Head(ready) = e
\* An awaited operation of task t, suspended at p, completes with value v.
Complete(t, p, v) ==
    /\ phase # "closed"
    /\ task[t].st = "waiting" /\ task[t].pos = p
    /\ task' = [task EXCEPT ![t].st = "ready", ![t].wake = v]
    /\ ready' = Append(ready, t)

\* What is known of Player i before should_accept_player has read anything.
NoAuth == [token |-> "unread", lookups |-> 0, user |-> "unread", expires |-> 0, now |-> 0,
           db_user |-> FALSE, io |-> <<>>]

Init ==
    /\ player_count \in 1..MaxPlayerCount
    /\ has_get_friendly_name \in BOOLEAN
    /\ task = [t \in Tasks |-> IF t = MAIN THEN NewTask ELSE NoTask]
    /\ ready = <<MAIN>>
    /\ outer = "none"
    /\ pending_exc = "none"
    /\ handlers_registered = FALSE
    /\ nsig = 0
    /\ db_open = FALSE
    /\ connect_calls = 0
    /\ disconnect_calls = 0
    /\ listening = FALSE
    /\ nconn = 0
    /\ _player_queue = <<>>
    /\ players = <<>>
    /\ batches = <<>>
    /\ controller_args = [k \in Conns |-> <<>>]
    /\ decision = [i \in Conns |-> "none"]
    /\ hook_error = [i \in Conns |-> <<"none", "none">>]
    /\ closes = [i \in Conns |-> 0]
    /\ close_sites = [i \in Conns |-> <<>>]
    /\ enqueued = <<>>
    /\ phase = "main"
    /\ startup = <<>>
    /\ auth = [i \in Conns |-> NoAuth]

cfgVars == <<player_count, has_get_friendly_name>>
dbVars == <<db_open, connect_calls, disconnect_calls>>
sigVars == <<handlers_registered, nsig>>
mmVars == <<_player_queue, players, batches, controller_args, enqueued>>
hsVars == <<decision, hook_error, closes, close_sites>>
logVars == <<startup, auth>>

(***************************************************************************)
(* Task.cancel().  A task suspended on a future has that future cancelled, *)
(* which schedules the task; a task whose step is already scheduled gets   *)
(* _must_cancel.  Either way its next step throws CancelledError into the  *)
(* coroutine: wake = "cancelled".  A task awaiting gather() forwards the   *)
(* cancel to the children and is itself cancelled only through them,       *)
(* unless no child could be cancelled.                                     *)
(***************************************************************************)
CancelPlain(S, t) ==
    LET r == S.task[t] IN
    IF r.st = "ready" THEN [S EXCEPT !.task[t].wake = "cancelled"]
    ELSE IF r.st = "waiting"
         THEN [task |-> [S.task EXCEPT ![t].st = "ready", ![t].wake = "cancelled"],
               ready |-> Append(S.ready, t)]
         ELSE S

\* (Variant: the task awaiting gather() is cancelled like any other.)
CancelTask_direct(S, t) == CancelPlain(S, t)

CancelTask(S, t) ==
    IF t = MAIN /\ S.task[MAIN].st = "waiting" /\ S.task[MAIN].pos = "gather"
    THEN LET S1 == CancelPlain(CancelPlain(S, SERVER), GAMES)
             ret == S.task[SERVER].st # "done" \/ S.task[GAMES].st # "done"
         IN  IF ret THEN S1 ELSE [S1 EXCEPT !.task[MAIN].wake = "cancelled"]
    ELSE CancelPlain(S, t)

RECURSIVE CancelAll(_, _)
CancelAll(S, order) ==
    IF order = <<>> THEN S
    ELSE CancelAll(CancelTask(S, Head(order)), Tail(order))

\* all_tasks() is a set: the order of the for loop over it is not fixed.
TaskOrder ==
    <<MAIN, SERVER, GAMES, HB>> \o [i \in Conns |-> H(i)]
        \o [k \in Conns |-> L(k)] \o [k \in Conns |-> C(k)]
Reverse(s) == [j \in 1..Len(s) |-> s[Len(s) + 1 - j]]
TaskOrders == {TaskOrder, Reverse(TaskOrder)}

\* How a task ends when exception v leaves its coroutine.
Raised(v) == IF v = "cancelled" THEN "cancelled" ELSE "error"

\* (Variant: _start_serving also awaits the controllers, so that one that raises
\* wakes it with the exception.)
Finish_awaitedControllers(t, r, rd) ==
    IF t[1] = "controller" /\ r = "error"
    THEN /\ task' = [task EXCEPT ![t] = Done(t, r), ![MAIN].st = "ready", ![MAIN].wake = r]
         /\ ready' = Append(rd, MAIN)
    ELSE /\ task' = [task EXCEPT ![t] = Done(t, r)]
         /\ ready' = IF t \in {SERVER, GAMES} THEN Append(rd, CB(t)) ELSE rd

\* A finished child of gather() has gather's done-callback scheduled.
Finish(t, r, rd) ==
    /\ task' = [task EXCEPT ![t] = Done(t, r)]
    /\ ready' = IF t \in {SERVER, GAMES} THEN Append(rd, CB(t)) ELSE rd

(***************************************************************************)
(* _start_serving, the coroutine asyncio.run() drives (task MAIN).         *)
(***************************************************************************)
\* The on_server_started hook of TermninjaServer never suspends.  Lines 268-270:
\* PingDatabaseMixin creates the heartbeat task and calls the next class of the
\* MRO that defines the hook; OptionalAuthenticationMixin does not, so that is
\* Server.on_server_started (lines 68-72), which does nothing.
Server_on_server_started == <<"Server.on_server_started">>

\* (Variant: the mixin does not call super().on_server_started().)
PingDatabaseMixin_on_server_started_noSuper ==
    <<"PingDatabaseMixin.on_server_started", "create_task(_update_database_task)">>

PingDatabaseMixin_on_server_started ==
    <<"PingDatabaseMixin.on_server_started", "create_task(_update_database_task)">>
        \o Server_on_server_started

\* Lines 110-111 and 152: register the handlers, then await db.conn.connect().
_register_signal_handlers ==
    /\ Runs(MAIN) /\ task[MAIN].pos = "start"
    /\ handlers_registered' = TRUE
    /\ connect_calls' = connect_calls + 1
    /\ task' = [task EXCEPT ![MAIN] = Waiting("connect")]
    /\ ready' = Tail(ready)
    /\ startup' = startup \o <<"add_signal_handler", "db.conn.connect">>
    /\ UNCHANGED <<cfgVars, auth, mmVars, hsVars, outer, pending_exc, nsig,
                   db_open, disconnect_calls, listening, nconn, phase>>

\* The database answers the connect: the connection is open, or the connect raised.
db_connect_done ==
    /\ Complete(MAIN, "connect", "ok")
    /\ db_open' = TRUE
    /\ UNCHANGED <<cfgVars, logVars, mmVars, hsVars, sigVars, outer, pending_exc,
                   connect_calls, disconnect_calls, listening, nconn, phase>>

db_connect_failed ==
    /\ Complete(MAIN, "connect", "error")
    /\ UNCHANGED <<cfgVars, logVars, mmVars, hsVars, sigVars, dbVars, outer, pending_exc,
                   listening, nconn, phase>>

\* (Variant: an exception of the connect is swallowed and start-up goes on.)
_initialize_ignoresConnectError ==
    /\ Runs(MAIN) /\ task[MAIN].pos = "connect"
    /\ IF task[MAIN].wake = "cancelled"
       THEN /\ Finish(MAIN, Raised(task[MAIN].wake), Tail(ready))
            /\ UNCHANGED <<_player_queue, outer, startup>>
       ELSE /\ _player_queue' = <<>>
            /\ task' = [task EXCEPT ![MAIN] = Waiting("gather"), ![SERVER] = NewTask,
                                    ![GAMES] = NewTask, ![HB] = NewTask]
            /\ ready' = Tail(ready) \o <<SERVER, GAMES, HB>>
            /\ outer' = "pending"
            /\ startup' = startup \o <<"asyncio.Queue", "create_task(_server_task)",
                                        "create_task(_start_game_task)">>
                              \o PingDatabaseMixin_on_server_started \o <<"gather">>
    /\ UNCHANGED <<cfgVars, auth, hsVars, sigVars, dbVars, players, batches, controller_args,
                   enqueued, pending_exc, listening, nconn, phase>>

\* (Variant: on_server_started is awaited before the two tasks are created.)
_initialize_hookFirst ==
    /\ Runs(MAIN) /\ task[MAIN].pos = "connect"
    /\ IF task[MAIN].wake # "ok"
       THEN /\ Finish(MAIN, Raised(task[MAIN].wake), Tail(ready))
            /\ UNCHANGED <<_player_queue, outer, startup>>
       ELSE /\ _player_queue' = <<>>
            /\ task' = [task EXCEPT ![MAIN] = Waiting("gather"), ![SERVER] = NewTask,
                                    ![GAMES] = NewTask, ![HB] = NewTask]
            /\ ready' = Tail(ready) \o <<HB, SERVER, GAMES>>
            /\ outer' = "pending"
            /\ startup' = startup \o <<"asyncio.Queue">>
                              \o PingDatabaseMixin_on_server_started
                              \o <<"create_task(_server_task)",
                                    "create_task(_start_game_task)", "gather">>
    /\ UNCHANGED <<cfgVars, auth, hsVars, sigVars, dbVars, players, batches, controller_args,
                   enqueued, pending_exc, listening, nconn, phase>>

\* Lines 152-153 and 112-123, resumed from the connect.  A CancelledError or a
\* connect error is raised at line 111, before the try statement: no finally runs.
\* Otherwise the queue is made, the two core tasks are created, on_server_started
\* (PingDatabaseMixin: create the heartbeat task, then the base hook) runs without
\* suspending, and the coroutine suspends on gather().
_initialize ==
    /\ Runs(MAIN) /\ task[MAIN].pos = "connect"
    /\ IF task[MAIN].wake # "ok"
       THEN /\ Finish(MAIN, Raised(task[MAIN].wake), Tail(ready))
            /\ UNCHANGED <<_player_queue, outer, startup>>
       ELSE /\ _player_queue' = <<>>
            /\ task' = [task EXCEPT ![MAIN] = Waiting("gather"), ![SERVER] = NewTask,
                                    ![GAMES] = NewTask, ![HB] = NewTask]
            /\ ready' = Tail(ready) \o <<SERVER, GAMES, HB>>
            /\ outer' = "pending"
            /\ startup' = startup \o <<"asyncio.Queue", "create_task(_server_task)",
                                        "create_task(_start_game_task)">>
                              \o PingDatabaseMixin_on_server_started \o <<"gather">>
    /\ UNCHANGED <<cfgVars, auth, hsVars, sigVars, dbVars, players, batches, controller_args,
                   enqueued, pending_exc, listening, nconn, phase>>

\* gather's done-callback for one child (not return_exceptions): the first child
\* that ends cancelled or with an exception settles the outer future with it and
\* wakes _start_serving; later callbacks find the outer future done.
gather_done_callback(child) ==
    /\ Runs(CB(child))
    /\ IF outer = "pending"
       THEN /\ outer' = task[child].res
            /\ task' = [task EXCEPT ![MAIN].st = "ready",
                          ![MAIN].wake = IF @ = "cancelled" THEN @ ELSE task[child].res]
            /\ ready' = Append(Tail(ready), MAIN)
       ELSE /\ ready' = Tail(ready)
            /\ UNCHANGED <<task, outer>>
    /\ UNCHANGED <<cfgVars, logVars, mmVars, hsVars, sigVars, dbVars, pending_exc,
                   listening, nconn, phase>>

\* Lines 120-127 and 159, resumed from gather(): CancelledError is swallowed, any
\* other exception stays in flight; the finally block awaits db.conn.disconnect().
_start_serving ==
    /\ Runs(MAIN) /\ task[MAIN].pos = "gather"
    /\ pending_exc' = IF task[MAIN].wake = "cancelled" THEN "none" ELSE task[MAIN].wake
    /\ disconnect_calls' = disconnect_calls + 1
    /\ task' = [task EXCEPT ![MAIN] = Waiting("disconnect")]
    /\ ready' = Tail(ready)
    /\ UNCHANGED <<cfgVars, logVars, mmVars, hsVars, sigVars, outer, db_open, connect_calls,
                   listening, nconn, phase>>

db_disconnect_done ==
    /\ Complete(MAIN, "disconnect", "ok")
    /\ db_open' = FALSE
    /\ UNCHANGED <<cfgVars, logVars, mmVars, hsVars, sigVars, outer, pending_exc,
                   connect_calls, disconnect_calls, listening, nconn, phase>>

\* Line 159 to the end of the finally block, resumed from the disconnect: the
\* exception in flight, if any, is re-raised; a CancelledError thrown into the
\* disconnect replaces it.
_teardown ==
    /\ Runs(MAIN) /\ task[MAIN].pos = "disconnect"
    /\ Finish(MAIN, IF task[MAIN].wake = "cancelled" THEN "cancelled"
                    ELSE IF pending_exc = "none" THEN "ok" ELSE pending_exc,
              Tail(ready))
    /\ pending_exc' = "none"
    /\ UNCHANGED <<cfgVars, logVars, mmVars, hsVars, sigVars, dbVars, outer,
                   listening, nconn, phase>>

(***************************************************************************)
(* _server_task (task SERVER): the Acceptor.                               *)
(***************************************************************************)
\* Line 165: await asyncio.start_server(...).
_server_task ==
    /\ Runs(SERVER) /\ task[SERVER].pos = "start"
    /\ IF task[SERVER].wake = "cancelled"
       THEN Finish(SERVER, "cancelled", Tail(ready))
       ELSE /\ task' = [task EXCEPT ![SERVER] = Waiting("start_server")]
            /\ ready' = Tail(ready)
    /\ UNCHANGED <<cfgVars, logVars, mmVars, hsVars, sigVars, dbVars, outer, pending_exc,
                   listening, nconn, phase>>

\* The endpoint is bound and listening, or the bind raised (OSError).
start_server_done ==
    /\ Complete(SERVER, "start_server", "ok")
    /\ listening' = TRUE
    /\ UNCHANGED <<cfgVars, logVars, mmVars, hsVars, sigVars, dbVars, outer, pending_exc,
                   nconn, phase>>

start_server_failed ==
    /\ Complete(SERVER, "start_server", "error")
    /\ UNCHANGED <<cfgVars, logVars, mmVars, hsVars, sigVars, dbVars, outer, pending_exc,
                   listening, nconn, phase>>

\* Lines 165-172, resumed from start_server: an exception ends the task; otherwise
\* it enters `async with server` and suspends in serve_forever().
serve_forever ==
    /\ Runs(SERVER) /\ task[SERVER].pos = "start_server"
    /\ IF task[SERVER].wake = "ok"
       THEN /\ task' = [task EXCEPT ![SERVER] = Waiting("serve_forever")]
            /\ ready' = Tail(ready)
       ELSE Finish(SERVER, Raised(task[SERVER].wake), Tail(ready))
    /\ UNCHANGED <<cfgVars, logVars, mmVars, hsVars, sigVars, dbVars, outer, pending_exc,
                   listening, nconn, phase>>

\* serve_forever() only ever ends by cancellation: it closes the server on the way out.
serve_forever_cancelled ==
    /\ Runs(SERVER) /\ task[SERVER].pos = "serve_forever"
    /\ Finish(SERVER, Raised(task[SERVER].wake), Tail(ready))
    /\ listening' = FALSE
    /\ UNCHANGED <<cfgVars, logVars, mmVars, hsVars, sigVars, dbVars, outer, pending_exc,
                   nconn, phase>>

\* A connection completes: start_server's callback creates a task running
\* _on_connection for it.  Connections are numbered in arrival order.
connection_made ==
    /\ phase # "closed" /\ listening /\ nconn < MaxConn
    /\ nconn' = nconn + 1
    /\ task' = [task EXCEPT ![H(nconn + 1)] = NewTask]
    /\ ready' = Append(ready, H(nconn + 1))
    /\ UNCHANGED <<cfgVars, logVars, mmVars, hsVars, sigVars, dbVars, outer, pending_exc,
                   listening, phase>>

(***************************************************************************)
(* _on_connection / _accept_player (task H(i)).  Every hook and            *)
(* player.close() awaits peer I/O; the await completes normally, or raises *)
(* ConnectionResetError ("reset") or another error ("other").              *)
(***************************************************************************)
HookAwaits == {"on_player_connected", "should_accept_player", "on_player_accepted",
               "on_player_rejected", "close_196", "close_184"}
HookOutcomes(p) ==
    IF p = "should_accept_player" THEN {"accept", "reject", "reset", "other"}
    ELSE {"ok", "reset", "other"}

hook_io(i, p, v) ==
    /\ Complete(H(i), p, v)
    /\ UNCHANGED <<cfgVars, logVars, mmVars, hsVars, sigVars, dbVars, outer, pending_exc,
                   listening, nconn, phase>>

\* An exception raised at an await inside the try block of _on_connection:
\* ConnectionResetError is caught at line 183 and line 184 awaits player.close();
\* anything else, CancelledError included, ends the task.
RaisedInTry(i, rest) ==
    IF task[H(i)].wake = "reset"
    THEN /\ closes' = [closes EXCEPT ![i] = @ + 1]
         /\ close_sites' = [close_sites EXCEPT ![i] = Append(@, 184)]
         /\ task' = [task EXCEPT ![H(i)] = Waiting("close_184")]
         /\ ready' = rest
    ELSE /\ Finish(H(i), Raised(task[H(i)].wake), rest)
         /\ UNCHANGED <<closes, close_sites>>

\* What a hook raised, for the record.
HookRaised(i, hook) ==
    hook_error' = IF task[H(i)].wake \in {"reset", "other"}
                  THEN [hook_error EXCEPT ![i] = <<hook, task[H(i)].wake>>]
                  ELSE hook_error

\* Lines 178-181: up to the await of on_player_connected.
_on_connection(i) ==
    /\ Runs(H(i)) /\ task[H(i)].pos = "start"
    /\ IF task[H(i)].wake = "cancelled"
       THEN Finish(H(i), "cancelled", Tail(ready))
       ELSE /\ task' = [task EXCEPT ![H(i)] = Waiting("on_player_connected")]
            /\ ready' = Tail(ready)
    /\ UNCHANGED <<cfgVars, logVars, mmVars, hsVars, sigVars, dbVars, outer, pending_exc,
                   listening, nconn, phase>>

\* Lines 181-182 and 191: on_player_connected returned; await should_accept_player.
_accept_player(i) ==
    /\ Runs(H(i)) /\ task[H(i)].pos = "on_player_connected"
    /\ IF task[H(i)].wake = "ok"
       THEN /\ task' = [task EXCEPT ![H(i)] = Waiting("should_accept_player")]
            /\ ready' = Tail(ready)
            /\ UNCHANGED <<closes, close_sites>>
       ELSE RaisedInTry(i, Tail(ready))
    /\ HookRaised(i, "on_player_connected")
    /\ UNCHANGED <<cfgVars, logVars, mmVars, decision, sigVars, dbVars, outer, pending_exc,
                   listening, nconn, phase>>

\* (Variant: the branches of the if statement of line 191 are exchanged.)
should_accept_player_swapped(i) ==
    /\ Runs(H(i)) /\ task[H(i)].pos = "should_accept_player"
    /\ IF task[H(i)].wake \in {"accept", "reject"}
       THEN /\ decision' = [decision EXCEPT ![i] = task[H(i)].wake]
            /\ task' = [task EXCEPT ![H(i)] =
                          Waiting(IF task[H(i)].wake = "accept" THEN "on_player_rejected"
                                  ELSE "on_player_accepted")]
            /\ ready' = Tail(ready)
            /\ UNCHANGED <<closes, close_sites>>
       ELSE /\ RaisedInTry(i, Tail(ready))
            /\ UNCHANGED decision
    /\ HookRaised(i, "should_accept_player")
    /\ UNCHANGED <<cfgVars, logVars, mmVars, sigVars, dbVars, outer, pending_exc,
                   listening, nconn, phase>>

\* Lines 191-195: the decision selects the accepted or the rejected hook.
should_accept_player(i) ==
    /\ Runs(H(i)) /\ task[H(i)].pos = "should_accept_player"
    /\ IF task[H(i)].wake \in {"accept", "reject"}
       THEN /\ decision' = [decision EXCEPT ![i] = task[H(i)].wake]
            /\ task' = [task EXCEPT ![H(i)] =
                          Waiting(IF task[H(i)].wake = "accept" THEN "on_player_accepted"
                                  ELSE "on_player_rejected")]
            /\ ready' = Tail(ready)
            /\ UNCHANGED <<closes, close_sites>>
       ELSE /\ RaisedInTry(i, Tail(ready))
            /\ UNCHANGED decision
    /\ HookRaised(i, "should_accept_player")
    /\ UNCHANGED <<cfgVars, logVars, mmVars, sigVars, dbVars, outer, pending_exc,
                   listening, nconn, phase>>

\* (Variant: the queue hands out the newest player first.)
Put_lifo(i, rest) ==
    /\ _player_queue' = <<i>> \o _player_queue
    /\ enqueued' = Append(enqueued, i)
    /\ IF task[GAMES].st = "waiting"
       THEN /\ task' = [task EXCEPT ![H(i)] = Done(H(i), "ok"), ![GAMES].st = "ready",
                                    ![GAMES].wake = "ok"]
            /\ ready' = Append(rest, GAMES)
       ELSE /\ task' = [task EXCEPT ![H(i)] = Done(H(i), "ok")]
            /\ ready' = rest

\* Queue.put on the unbounded queue never suspends; it wakes the getter, if any.
Put(i, rest) ==
    /\ _player_queue' = Append(_player_queue, i)
    /\ enqueued' = Append(enqueued, i)
    /\ IF task[GAMES].st = "waiting"
       THEN /\ task' = [task EXCEPT ![H(i)] = Done(H(i), "ok"), ![GAMES].st = "ready",
                                    ![GAMES].wake = "ok"]
            /\ ready' = Append(rest, GAMES)
       ELSE /\ task' = [task EXCEPT ![H(i)] = Done(H(i), "ok")]
            /\ ready' = rest

\* (Variant: the player is put on the queue before on_player_accepted is awaited,
\* so that a reset in the hook closes a player that is queued.)
on_player_accepted_afterPut(i) ==
    /\ Runs(H(i)) /\ task[H(i)].pos = "on_player_accepted"
    /\ IF task[H(i)].wake = "ok"
       THEN /\ Put(i, Tail(ready))
            /\ UNCHANGED <<closes, close_sites>>
       ELSE /\ RaisedInTry(i, Tail(ready))
            /\ _player_queue' = Append(_player_queue, i)
            /\ enqueued' = Append(enqueued, i)
    /\ HookRaised(i, "on_player_accepted")
    /\ UNCHANGED <<cfgVars, logVars, players, batches, controller_args, decision, sigVars,
                   dbVars, outer, pending_exc, listening, nconn, phase>>

\* Lines 192-193: on_player_accepted returned; put the player on the queue.
on_player_accepted(i) ==
    /\ Runs(H(i)) /\ task[H(i)].pos = "on_player_accepted"
    /\ IF task[H(i)].wake = "ok"
       THEN /\ Put(i, Tail(ready))
            /\ UNCHANGED <<closes, close_sites>>
       ELSE /\ RaisedInTry(i, Tail(ready))
            /\ UNCHANGED <<_player_queue, enqueued>>
    /\ HookRaised(i, "on_player_accepted")
    /\ UNCHANGED <<cfgVars, logVars, players, batches, controller_args, decision, sigVars,
                   dbVars, outer, pending_exc, listening, nconn, phase>>

\* Lines 195-196: on_player_rejected returned; await player.close().
on_player_rejected(i) ==
    /\ Runs(H(i)) /\ task[H(i)].pos = "on_player_rejected"
    /\ IF task[H(i)].wake = "ok"
       THEN /\ closes' = [closes EXCEPT ![i] = @ + 1]
            /\ close_sites' = [close_sites EXCEPT ![i] = Append(@, 196)]
            /\ task' = [task EXCEPT ![H(i)] = Waiting("close_196")]
            /\ ready' = Tail(ready)
       ELSE RaisedInTry(i, Tail(ready))
    /\ HookRaised(i, "on_player_rejected")
    /\ UNCHANGED <<cfgVars, logVars, mmVars, decision, sigVars, dbVars, outer, pending_exc,
                   listening, nconn, phase>>

\* Line 196, resumed from player.close(): still inside the try block.
close_after_reject(i) ==
    /\ Runs(H(i)) /\ task[H(i)].pos = "close_196"
    /\ IF task[H(i)].wake = "ok"
       THEN /\ Finish(H(i), "ok", Tail(ready))
            /\ UNCHANGED <<closes, close_sites>>
       ELSE RaisedInTry(i, Tail(ready))
    /\ UNCHANGED <<cfgVars, logVars, mmVars, decision, hook_error, sigVars, dbVars, outer,
                   pending_exc, listening, nconn, phase>>

\* Line 184, resumed from player.close() in the except clause: nothing catches here.
close_after_reset(i) ==
    /\ Runs(H(i)) /\ task[H(i)].pos = "close_184"
    /\ Finish(H(i), IF task[H(i)].wake = "ok" THEN "ok" ELSE Raised(task[H(i)].wake),
              Tail(ready))
    /\ UNCHANGED <<cfgVars, logVars, mmVars, hsVars, sigVars, dbVars, outer, pending_exc,
                   listening, nconn, phase>>

(***************************************************************************)
(* The hooks of TermninjaServer (PingDatabaseMixin, OptionalAuthentication- *)
(* Mixin, Server), await by await, for the handler of Player i.  A position *)
(* is the await the handler is suspended at; auth[i].io lists what the      *)
(* hooks have done.  _on_connection(i) and _accept_player(i) above lead to  *)
(* the first await of should_accept_player, line 236.                       *)
(***************************************************************************)
Tokens == {"", "token"}
AuthAwaits == {"on_player_connected", "should_accept_player", "readline_237",
               "select_by_play_token", "send_244", "send_248", "send_251",
               "on_player_accepted", "send_90", "readline_91", "close_196", "close_184"}
Io(i, events) == [auth EXCEPT ![i].io = @ \o events]

\* (Variant: a token that expires at this very moment counts as expired.)
token_is_expired_inclusive(expiration_datetime, now) == expiration_datetime <= now

\* Lines 232-233.
token_is_expired(expiration_datetime, now) == expiration_datetime < now

\* The peer's line arrives: the token typed, or nothing but enter.
readline_io(i, tok) ==
    /\ Complete(H(i), "readline_237", "ok")
    /\ auth' = [auth EXCEPT ![i].token = tok]
    /\ UNCHANGED <<cfgVars, startup, mmVars, hsVars, sigVars, dbVars, outer, pending_exc,
                   listening, nconn, phase>>

\* The database answers db.users.select_by_play_token: no such user, or the user
\* with the expiry of its play token.
select_by_play_token_io(i, found, e) ==
    /\ Complete(H(i), "select_by_play_token", IF found THEN "found" ELSE "none")
    /\ auth' = [auth EXCEPT ![i].user = IF found THEN "found" ELSE "none",
                            ![i].expires = IF found THEN e ELSE @]
    /\ UNCHANGED <<cfgVars, startup, mmVars, hsVars, sigVars, dbVars, outer, pending_exc,
                   listening, nconn, phase>>

\* Lines 236-237: the prompt is sent; await player.readline().
send_enter_token_prompt(i) ==
    /\ Runs(H(i)) /\ task[H(i)].pos = "should_accept_player"
    /\ IF task[H(i)].wake = "ok"
       THEN /\ task' = [task EXCEPT ![H(i)] = Waiting("readline_237")]
            /\ ready' = Tail(ready)
            /\ auth' = Io(i, <<"send(enter_token_prompt)">>)
            /\ UNCHANGED <<closes, close_sites>>
       ELSE /\ RaisedInTry(i, Tail(ready))
            /\ UNCHANGED auth
    /\ HookRaised(i, "should_accept_player")
    /\ UNCHANGED <<cfgVars, startup, mmVars, decision, sigVars, dbVars, outer, pending_exc,
                   listening, nconn, phase>>

\* Lines 237-241: an empty token returns True at once, and _accept_player awaits
\* on_player_accepted (line 256); any other token is looked up.
token_read(i) ==
    /\ Runs(H(i)) /\ task[H(i)].pos = "readline_237"
    /\ IF task[H(i)].wake = "ok"
       THEN /\ IF auth[i].token = ""
               THEN /\ decision' = [decision EXCEPT ![i] = "accept"]
                    /\ task' = [task EXCEPT ![H(i)] = Waiting("on_player_accepted")]
                    /\ auth' = Io(i, <<"readline", "return True">>)
               ELSE /\ task' = [task EXCEPT ![H(i)] = Waiting("select_by_play_token")]
                    /\ auth' = [auth EXCEPT ![i].io = @ \o <<"readline", "select_by_play_token">>,
                                            ![i].lookups = @ + 1]
                    /\ UNCHANGED decision
            /\ ready' = Tail(ready)
            /\ UNCHANGED <<closes, close_sites>>
       ELSE /\ RaisedInTry(i, Tail(ready))
            /\ UNCHANGED <<auth, decision>>
    /\ HookRaised(i, "should_accept_player")
    /\ UNCHANGED <<cfgVars, startup, mmVars, sigVars, dbVars, outer, pending_exc,
                   listening, nconn, phase>>

\* Lines 241-251: no user sends the rejected message; a user whose token has
\* expired by datetime.now() sends the expired message; otherwise the accepted
\* message is sent.
user_selected(i) ==
    /\ Runs(H(i)) /\ task[H(i)].pos = "select_by_play_token"
    /\ IF task[H(i)].wake = "none"
       THEN /\ task' = [task EXCEPT ![H(i)] = Waiting("send_244")]
            /\ ready' = Tail(ready)
            /\ UNCHANGED <<auth, closes, close_sites>>
       ELSE IF task[H(i)].wake = "found"
       THEN /\ \E now \in 0..MaxTime :
                 /\ auth' = [auth EXCEPT ![i].now = now]
                 /\ task' = [task EXCEPT ![H(i)] =
                               Waiting(IF token_is_expired(auth[i].expires, now)
                                       THEN "send_248" ELSE "send_251")]
            /\ ready' = Tail(ready)
            /\ UNCHANGED <<closes, close_sites>>
       ELSE /\ RaisedInTry(i, Tail(ready))
            /\ UNCHANGED auth
    /\ HookRaised(i, "should_accept_player")
    /\ UNCHANGED <<cfgVars, startup, mmVars, decision, sigVars, dbVars, outer, pending_exc,
                   listening, nconn, phase>>

\* Lines 244-245 and 248-249, then 195-196: the message is sent and the hook
\* returns False; Server.on_player_rejected (lines 93-98) does nothing; await
\* player.close().
token_refused(i) ==
    /\ Runs(H(i)) /\ task[H(i)].pos \in {"send_244", "send_248"}
    /\ IF task[H(i)].wake = "ok"
       THEN /\ decision' = [decision EXCEPT ![i] = "reject"]
            /\ auth' = Io(i, <<IF task[H(i)].pos = "send_244"
                               THEN "send(token_rejected_message)"
                               ELSE "send(token_expired_message)",
                               "return False", "Server.on_player_rejected">>)
            /\ closes' = [closes EXCEPT ![i] = @ + 1]
            /\ close_sites' = [close_sites EXCEPT ![i] = Append(@, 196)]
            /\ task' = [task EXCEPT ![H(i)] = Waiting("close_196")]
            /\ ready' = Tail(ready)
       ELSE /\ RaisedInTry(i, Tail(ready))
            /\ UNCHANGED <<auth, decision>>
    /\ HookRaised(i, "should_accept_player")
    /\ UNCHANGED <<cfgVars, startup, mmVars, sigVars, dbVars, outer, pending_exc,
                   listening, nconn, phase>>

\* Lines 251-253, then 192 and 256: the accepted message is sent, the user is
\* attached to the player and the hook returns True; await on_player_accepted.
token_accepted(i) ==
    /\ Runs(H(i)) /\ task[H(i)].pos = "send_251"
    /\ IF task[H(i)].wake = "ok"
       THEN /\ decision' = [decision EXCEPT ![i] = "accept"]
            /\ auth' = [auth EXCEPT ![i].io = @ \o <<"send(token_accepted_message)",
                                                      "assign_db_user", "return True">>,
                                    ![i].db_user = TRUE]
            /\ task' = [task EXCEPT ![H(i)] = Waiting("on_player_accepted")]
            /\ ready' = Tail(ready)
            /\ UNCHANGED <<closes, close_sites>>
       ELSE /\ RaisedInTry(i, Tail(ready))
            /\ UNCHANGED <<auth, decision>>
    /\ HookRaised(i, "should_accept_player")
    /\ UNCHANGED <<cfgVars, startup, mmVars, sigVars, dbVars, outer, pending_exc,
                   listening, nconn, phase>>

\* (Variant: the mixin does not call super().on_player_accepted(); the player is
\* queued as soon as the identity has been sent.)
identity_sent_noSuper(i) ==
    /\ Runs(H(i)) /\ task[H(i)].pos = "on_player_accepted"
    /\ IF task[H(i)].wake = "ok"
       THEN /\ auth' = Io(i, <<"send(identity)">>)
            /\ Put(i, Tail(ready))
            /\ UNCHANGED <<closes, close_sites>>
       ELSE /\ RaisedInTry(i, Tail(ready))
            /\ UNCHANGED <<auth, _player_queue, enqueued>>
    /\ HookRaised(i, "on_player_accepted")
    /\ UNCHANGED <<cfgVars, startup, players, batches, controller_args, decision, sigVars,
                   dbVars, outer, pending_exc, listening, nconn, phase>>

\* Lines 256-262, then 90: the identity, score and expiry are sent; super() is the
\* next class of the MRO, Server, whose on_player_accepted awaits the send of the
\* continuation message.
identity_sent(i) ==
    /\ Runs(H(i)) /\ task[H(i)].pos = "on_player_accepted"
    /\ IF task[H(i)].wake = "ok"
       THEN /\ auth' = Io(i, <<"send(identity)", "Server.on_player_accepted">>)
            /\ task' = [task EXCEPT ![H(i)] = Waiting("send_90")]
            /\ ready' = Tail(ready)
            /\ UNCHANGED <<closes, close_sites>>
       ELSE /\ RaisedInTry(i, Tail(ready))
            /\ UNCHANGED auth
    /\ HookRaised(i, "on_player_accepted")
    /\ UNCHANGED <<cfgVars, startup, mmVars, decision, sigVars, dbVars, outer, pending_exc,
                   listening, nconn, phase>>

\* Lines 90-91: the continuation message is sent; await player.readline().
continuation_sent(i) ==
    /\ Runs(H(i)) /\ task[H(i)].pos = "send_90"
    /\ IF task[H(i)].wake = "ok"
       THEN /\ auth' = Io(i, <<"send(continuation_message)">>)
            /\ task' = [task EXCEPT ![H(i)] = Waiting("readline_91")]
            /\ ready' = Tail(ready)
            /\ UNCHANGED <<closes, close_sites>>
       ELSE /\ RaisedInTry(i, Tail(ready))
            /\ UNCHANGED auth
    /\ HookRaised(i, "on_player_accepted")
    /\ UNCHANGED <<cfgVars, startup, mmVars, decision, sigVars, dbVars, outer, pending_exc,
                   listening, nconn, phase>>

\* Lines 91 and 193: the line is read, both hooks return, the player is queued.
enter_read(i) ==
    /\ Runs(H(i)) /\ task[H(i)].pos = "readline_91"
    /\ IF task[H(i)].wake = "ok"
       THEN /\ auth' = Io(i, <<"readline", "put">>)
            /\ Put(i, Tail(ready))
            /\ UNCHANGED <<closes, close_sites>>
       ELSE /\ RaisedInTry(i, Tail(ready))
            /\ UNCHANGED <<auth, _player_queue, enqueued>>
    /\ HookRaised(i, "on_player_accepted")
    /\ UNCHANGED <<cfgVars, startup, players, batches, controller_args, decision, sigVars,
                   dbVars, outer, pending_exc, listening, nconn, phase>>

(***************************************************************************)
(* _start_game_task (task GAMES): the Matchmaker.                          *)
(***************************************************************************)
\* The list comprehension of lines 203-205 awaits Queue.get() player_count times
\* and then creates the _launch_game task.  get() suspends only on an empty queue,
\* so one step takes every queued player, one at a time.
\* (Variant: the batch is launched without the player dequeued last.)
RECURSIVE Collect_dropsLast(_, _, _)
Collect_dropsLast(q, pl, bs) ==
    IF q = <<>> THEN [queue |-> q, players |-> pl, batches |-> bs]
    ELSE IF Len(pl) + 1 = player_count
         THEN Collect_dropsLast(Tail(q), <<>>, Append(bs, pl))
         ELSE Collect_dropsLast(Tail(q), Append(pl, Head(q)), bs)

\* (Variant: players leave the queue only player_count at a time.)
RECURSIVE Collect_atomic(_, _, _)
Collect_atomic(q, pl, bs) ==
    IF Len(q) < player_count THEN [queue |-> q, players |-> pl, batches |-> bs]
    ELSE Collect_atomic(SubSeq(q, player_count + 1, Len(q)), pl,
                        Append(bs, SubSeq(q, 1, player_count)))

RECURSIVE Collect(_, _, _)
Collect(q, pl, bs) ==
    IF q = <<>> THEN [queue |-> q, players |-> pl, batches |-> bs]
    ELSE IF Len(pl) + 1 = player_count
         THEN Collect(Tail(q), <<>>, Append(bs, Append(pl, Head(q))))
         ELSE Collect(Tail(q), Append(pl, Head(q)), bs)

\* (Variant: the Matchmaker goes on only when the controllers of the batches it
\* has handed off have finished.)
_start_game_task_awaitsControllers ==
    /\ Runs(GAMES)
    /\ \A k \in 1..Len(batches) : IsDone(C(k))
    /\ IF task[GAMES].wake = "cancelled"
       THEN /\ Finish(GAMES, "cancelled", Tail(ready))
            /\ UNCHANGED <<_player_queue, players, batches>>
       ELSE LET got == Collect(_player_queue, players, batches)
                new == [j \in 1..(Len(got.batches) - Len(batches)) |-> L(Len(batches) + j)]
            IN  /\ _player_queue' = got.queue
                /\ players' = got.players
                /\ batches' = got.batches
                /\ task' = [t \in Tasks |->
                              IF t = GAMES THEN Waiting("get")
                              ELSE IF \E j \in 1..Len(new) : new[j] = t THEN NewTask
                              ELSE task[t]]
                /\ ready' = Tail(ready) \o new
    /\ UNCHANGED <<cfgVars, logVars, controller_args, enqueued, hsVars, sigVars, dbVars, outer,
                   pending_exc, listening, nconn, phase>>

_start_game_task ==
    /\ Runs(GAMES)
    /\ IF task[GAMES].wake = "cancelled"
       THEN /\ Finish(GAMES, "cancelled", Tail(ready))
            /\ UNCHANGED <<_player_queue, players, batches>>
       ELSE LET got == Collect(_player_queue, players, batches)
                new == [j \in 1..(Len(got.batches) - Len(batches)) |-> L(Len(batches) + j)]
            IN  /\ _player_queue' = got.queue
                /\ players' = got.players
                /\ batches' = got.batches
                /\ task' = [t \in Tasks |->
                              IF t = GAMES THEN Waiting("get")
                              ELSE IF \E j \in 1..Len(new) : new[j] = t THEN NewTask
                              ELSE task[t]]
                /\ ready' = Tail(ready) \o new
    /\ UNCHANGED <<cfgVars, logVars, controller_args, enqueued, hsVars, sigVars, dbVars, outer,
                   pending_exc, listening, nconn, phase>>

\* Lines 212-214 (task L(k)): self.get_friendly_name() is looked up on the
\* instance.  Server defines get_server_name only, so unless the concrete class
\* adds the method the call raises AttributeError and the task ends there.
_launch_game(k) ==
    /\ Runs(L(k))
    /\ IF task[L(k)].wake = "cancelled"
       THEN /\ Finish(L(k), "cancelled", Tail(ready))
            /\ UNCHANGED controller_args
       ELSE IF ~has_get_friendly_name
       THEN /\ Finish(L(k), "error", Tail(ready))
            /\ UNCHANGED controller_args
       ELSE /\ controller_args' = [controller_args EXCEPT ![k] = batches[k]]
            /\ task' = [task EXCEPT ![L(k)] = Done(L(k), "ok"), ![C(k)] = NewTask]
            /\ ready' = Append(Tail(ready), C(k))
    /\ UNCHANGED <<cfgVars, logVars, _player_queue, players, batches, enqueued, hsVars, sigVars,
                   dbVars, outer, pending_exc, listening, nconn, phase>>

(***************************************************************************)
(* controller.start() (task C(k)).  The controller runs until it returns   *)
(* or raises; a cancellation is observed at its suspension point.          *)
(***************************************************************************)
controller_start(k) ==
    /\ Runs(C(k)) /\ task[C(k)].pos = "start"
    /\ IF task[C(k)].wake = "cancelled"
       THEN Finish(C(k), "cancelled", Tail(ready))
       ELSE /\ task' = [task EXCEPT ![C(k)] = Waiting("running")]
            /\ ready' = Tail(ready)
    /\ UNCHANGED <<cfgVars, logVars, mmVars, hsVars, sigVars, dbVars, outer, pending_exc,
                   listening, nconn, phase>>

controller_io(k, v) ==
    /\ Complete(C(k), "running", v)
    /\ UNCHANGED <<cfgVars, logVars, mmVars, hsVars, sigVars, dbVars, outer, pending_exc,
                   listening, nconn, phase>>

controller_end(k) ==
    /\ Runs(C(k)) /\ task[C(k)].pos = "running"
    /\ Finish(C(k), IF task[C(k)].wake = "ok" THEN "ok" ELSE Raised(task[C(k)].wake),
              Tail(ready))
    /\ UNCHANGED <<cfgVars, logVars, mmVars, hsVars, sigVars, dbVars, outer, pending_exc,
                   listening, nconn, phase>>

(***************************************************************************)
(* PingDatabaseMixin._update_database_task (task HB): the heartbeat.       *)
(***************************************************************************)
HeartbeatNext(p) ==
    CASE p = "start" -> "create_or_update_game"
      [] p = "create_or_update_game" -> "update_game"
      [] p = "update_game" -> "sleep"
      [] p = "sleep" -> "update_game"

_update_database_task ==
    /\ Runs(HB)
    /\ IF task[HB].wake = "cancelled"
       THEN Finish(HB, "cancelled", Tail(ready))
       ELSE /\ task' = [task EXCEPT ![HB] = Waiting(HeartbeatNext(task[HB].pos))]
            /\ ready' = Tail(ready)
    /\ UNCHANGED <<cfgVars, logVars, mmVars, hsVars, sigVars, dbVars, outer, pending_exc,
                   listening, nconn, phase>>

heartbeat_io(p) ==
    /\ Complete(HB, p, "ok")
    /\ UNCHANGED <<cfgVars, logVars, mmVars, hsVars, sigVars, dbVars, outer, pending_exc,
                   listening, nconn, phase>>

(***************************************************************************)
(* Signals and the end of asyncio.run().                                   *)
(***************************************************************************)
\* SIGINT (n = 1) or SIGTERM (n = 2) is delivered: the loop schedules the handler.
signal_received(n) ==
    /\ phase # "closed" /\ handlers_registered /\ nsig < MaxSignals
    /\ nsig' = nsig + 1
    /\ ready' = Append(ready, SIG(n))
    /\ UNCHANGED <<cfgVars, logVars, mmVars, hsVars, dbVars, task, outer, pending_exc,
                   handlers_registered, listening, nconn, phase>>

\* Lines 144-146: cancel every task of the loop, _start_serving's own included.
_handle_stop_signal(n) ==
    /\ Runs(SIG(n))
    /\ \E order \in TaskOrders :
         LET S == CancelAll([task |-> task, ready |-> Tail(ready)], order)
         IN  task' = S.task /\ ready' = S.ready
    /\ UNCHANGED <<cfgVars, logVars, mmVars, hsVars, sigVars, dbVars, outer, pending_exc,
                   listening, nconn, phase>>

\* Line 54: once _start_serving has ended, asyncio.run() cancels the tasks that
\* remain and runs the loop until they are done ...
asyncio_run_cancel_all ==
    /\ phase = "main" /\ IsDone(MAIN)
    /\ phase' = "cleanup"
    /\ \E order \in TaskOrders :
         LET S == CancelAll([task |-> task, ready |-> ready], order)
         IN  task' = S.task /\ ready' = S.ready
    /\ UNCHANGED <<cfgVars, logVars, mmVars, hsVars, sigVars, dbVars, outer, pending_exc,
                   listening, nconn>>

\* ... and then closes the loop: the process ends.
asyncio_run_close ==
    /\ phase = "cleanup" /\ \A t \in Tasks : ~Active(t)
    /\ phase' = "closed"
    /\ listening' = FALSE
    /\ UNCHANGED <<cfgVars, logVars, mmVars, hsVars, sigVars, dbVars, task, ready, outer,
                   pending_exc, nconn>>

(***************************************************************************)
(* Specifications.  The callbacks of the loop are the same in all of them; *)
(* they differ in what the environment does.                               *)
(***************************************************************************)
\* Start-up with a database that answers and a port that binds.
Startup ==
    \/ _register_signal_handlers
    \/ db_connect_done
    \/ _initialize
    \/ _server_task
    \/ start_server_done
    \/ serve_forever
    \/ _update_database_task

\* A handshake whose hooks return and accept, the Matchmaker, the launches.
Pipeline ==
    \/ \E i \in Conns : _on_connection(i)
    \/ \E i \in Conns : _accept_player(i)
    \/ \E i \in Conns : should_accept_player(i)
    \/ \E i \in Conns : on_player_accepted(i)
    \/ _start_game_task
    \/ \E k \in Conns : _launch_game(k)
    \/ \E k \in Conns : controller_start(k)

PeersBehave ==
    \E i \in Conns : \E p \in HookAwaits : \E v \in HookOutcomes(p) \cap {"ok", "accept"} :
        hook_io(i, p, v)

\* The heartbeat's database calls and sleeps complete: it keeps looping.
Heartbeat ==
    \E p \in {"create_or_update_game", "update_game", "sleep"} : heartbeat_io(p)

\* Controllers return or raise by themselves.
ControllerRuns ==
    \/ \E k \in Conns : \E v \in {"ok", "error"} : controller_io(k, v)
    \/ \E k \in Conns : controller_end(k)

\* The end of _start_serving and of asyncio.run().
Shutdown ==
    \/ gather_done_callback(SERVER)
    \/ gather_done_callback(GAMES)
    \/ _start_serving
    \/ db_disconnect_done
    \/ _teardown
    \/ serve_forever_cancelled
    \/ asyncio_run_cancel_all
    \/ asyncio_run_close

\* Matchmaking: no failure, no signal.
NextMatch ==
    \/ Startup
    \/ Pipeline
    \/ connection_made
    \/ PeersBehave

SpecMatch == Init /\ [][NextMatch]_vars

\* The same, when the loop keeps running its callbacks, connections keep arriving
\* and peers keep answering.
SpecMatchLive == SpecMatch /\ WF_vars(NextMatch)

\* Handshakes with every outcome of every hook and of player.close().
NextHandshake ==
    \/ Startup
    \/ Pipeline
    \/ nconn < MaxHandshakeConn /\ connection_made
    \/ \E i \in Conns : \E p \in HookAwaits : \E v \in HookOutcomes(p) : hook_io(i, p, v)
    \/ \E i \in Conns : on_player_rejected(i)
    \/ \E i \in Conns : close_after_reject(i)
    \/ \E i \in Conns : close_after_reset(i)

SpecHandshake == Init /\ [][NextHandshake]_vars

\* The same handshakes on a server class with player_count = 1 that defines
\* get_friendly_name.
InitSessions == Init /\ player_count = 1 /\ has_get_friendly_name
SpecSessions == InitSessions /\ [][NextHandshake]_vars

\* One SIGTERM, delivered at any moment after the handlers are registered.
NextSigterm ==
    \/ Startup
    \/ Pipeline
    \/ nconn < MaxShutdownConn /\ connection_made
    \/ PeersBehave
    \/ ControllerRuns
    \/ nsig = 0 /\ signal_received(2)
    \/ _handle_stop_signal(2)
    \/ Shutdown

SpecSigterm == Init /\ [][NextSigterm]_vars

\* Signals of both kinds, a database that may refuse, a port that may not bind.
NextShutdown ==
    \/ Startup
    \/ Pipeline
    \/ nconn < MaxShutdownConn /\ connection_made
    \/ PeersBehave
    \/ db_connect_failed
    \/ start_server_failed
    \/ \E n \in {1, 2} : signal_received(n)
    \/ \E n \in {1, 2} : _handle_stop_signal(n)
    \/ Shutdown

SpecShutdown == Init /\ [][NextShutdown]_vars

\* Start-up and shutdown before any connection arrives: signals at any moment, a
\* database that may refuse, a port that may not bind.
NextStartup ==
    \/ Startup
    \/ _start_game_task
    \/ db_connect_failed
    \/ start_server_failed
    \/ \E n \in {1, 2} : signal_received(n)
    \/ \E n \in {1, 2} : _handle_stop_signal(n)
    \/ Shutdown

SpecStartup == Init /\ [][NextStartup]_vars

\* The token dialogue of TermninjaServer: every token, every answer of the
\* database, every clock reading, peers that may reset the connection at any await.
NextAuth ==
    \/ Startup
    \/ nconn < MaxAuthConn /\ connection_made
    \/ \E i \in Conns : _on_connection(i)
    \/ \E i \in Conns : _accept_player(i)
    \/ \E i \in Conns : \E p \in AuthAwaits \ {"readline_237", "select_by_play_token"} :
          hook_io(i, p, "ok")
    \/ \E i \in Conns : \E p \in AuthAwaits : hook_io(i, p, "reset")
    \/ \E i \in Conns : \E tok \in Tokens : readline_io(i, tok)
    \/ \E i \in Conns : \E found \in BOOLEAN : \E e \in 0..MaxTime :
          select_by_play_token_io(i, found, e)
    \/ \E i \in Conns : send_enter_token_prompt(i)
    \/ \E i \in Conns : token_read(i)
    \/ \E i \in Conns : user_selected(i)
    \/ \E i \in Conns : token_refused(i)
    \/ \E i \in Conns : token_accepted(i)
    \/ \E i \in Conns : identity_sent(i)
    \/ \E i \in Conns : continuation_sent(i)
    \/ \E i \in Conns : enter_read(i)
    \/ \E i \in Conns : close_after_reject(i)
    \/ \E i \in Conns : close_after_reset(i)
    \/ _start_game_task
    \/ \E k \in Conns : _launch_game(k)
    \/ \E k \in Conns : controller_start(k)

SpecAuth == Init /\ [][NextAuth]_vars

\* The heartbeat loops for ever beside the handshakes and the launches.
NextHeartbeat ==
    \/ Startup
    \/ Heartbeat
    \/ nconn < MaxShutdownConn /\ connection_made
    \/ Pipeline
    \/ PeersBehave

SpecHeartbeat == Init /\ [][NextHeartbeat]_vars

\* Controllers that return, raise or never finish; no signal, no other failure.
NextControllers ==
    \/ Startup
    \/ Pipeline
    \/ connection_made
    \/ PeersBehave
    \/ ControllerRuns

SpecControllers == Init /\ [][NextControllers]_vars

\* Everything at once.
Next ==
    \/ NextMatch
    \/ NextAuth
    \/ NextHeartbeat
    \/ NextControllers
    \/ NextHandshake
    \/ NextSigterm
    \/ NextShutdown
    \/ Heartbeat

Spec == Init /\ [][Next]_vars

(***************************************************************************)
(* Properties.                                                             *)
(***************************************************************************)
RECURSIVE Flat(_)
Flat(bs) == IF bs = <<>> THEN <<>> ELSE Head(bs) \o Flat(Tail(bs))

\* Everything the Matchmaker has taken off the queue, in the order it took it.
Dequeued == Flat(batches) \o players
NoRepeat(q) == \A a, b \in 1..Len(q) : a # b => q[a] # q[b]
\* Signal handlers that have run.
Handled == nsig - Cardinality({j \in 1..Len(ready) : ready[j][1] = "signal"})
Controllers == {C(k) : k \in Conns}

\* C1: the Matchmaker launches one _launch_game task per full group of
\* player_count players put on the queue: every batch has player_count players,
\* the batches are, in order, the first Len(batches) * player_count players put on
\* the queue, no player is in two batches, and once the Matchmaker has caught up
\* with the queue there are exactly floor(N / player_count) batches.
C1_BatchesPartitionEnqueued ==
    /\ \A k \in 1..Len(batches) : Len(batches[k]) = player_count
    /\ \A k \in Conns : (task[L(k)].st # "none") <=> (k <= Len(batches))
    /\ Len(batches) * player_count <= Len(enqueued)
    /\ Flat(batches) = SubSeq(enqueued, 1, Len(batches) * player_count)
    /\ NoRepeat(Flat(batches))
    /\ task[GAMES].st = "waiting" => Len(batches) = Len(enqueued) \div player_count

\* player_count = 2 and three players queued: one batch launched, the Matchmaker
\* waiting for the fourth player.
C1_Witness ==
    /\ player_count = 2 /\ Len(enqueued) = 3
    /\ Len(batches) = 1 /\ task[GAMES].st = "waiting"

\* C2: every _launch_game task that has run constructed a controller with the
\* players of its batch and created the task that runs controller.start().
C2_EveryBatchGetsController ==
    \A k \in 1..Len(batches) :
        task[L(k)].st = "done" =>
            task[C(k)].st # "none" /\ controller_args[k] = batches[k]

\* C3 (as claimed): players are dequeued in the arrival order of their connections.
C3_DequeuedInArrivalOrder ==
    \A a, b \in 1..Len(Dequeued) : a < b => Dequeued[a] < Dequeued[b]

\* C3 (amended): players are dequeued in the order in which they were put on the
\* queue, each of them once; that order is the order in which the handshakes
\* completed.
C3_DequeuedInPutOrder ==
    /\ Dequeued \o _player_queue = enqueued
    /\ NoRepeat(Dequeued)

\* A later connection was accepted, queued and dequeued ahead of an earlier one.
C3_Witness ==
    \E a, b \in 1..Len(Dequeued) : a < b /\ Dequeued[a] > Dequeued[b]

\* C4: a rejected player whose rejected hook returned or raised a connection
\* reset has had close() called on it exactly once when its handler has ended.
C4_RejectClosesExactlyOnce ==
    \A i \in Conns :
        (decision[i] = "reject" /\ IsDone(H(i)) /\ hook_error[i][2] # "other")
            => closes[i] = 1

\* C5: a peer error of any kind raised by the connected, should-accept or accepted
\* hook leaves the player closed and off the queue, and the Acceptor running.
C5_PeerErrorClosesSession ==
    \A i \in Conns :
        (IsDone(H(i)) /\ hook_error[i][1] \in
            {"on_player_connected", "should_accept_player", "on_player_accepted"})
            => /\ closes[i] >= 1
               /\ \A j \in 1..Len(enqueued) : enqueued[j] # i
               /\ Active(SERVER)

\* C6: after one SIGTERM, db.conn.disconnect() is called only once the Acceptor,
\* the Matchmaker, the heartbeat and every controller task have stopped, and it
\* is called once.
C6_SigtermStopsAllThenDisconnects ==
    disconnect_calls >= 1 =>
        /\ disconnect_calls = 1
        /\ \A t \in {SERVER, GAMES, HB} \cup Controllers : ~Active(t)

\* The signal found the Acceptor serving, the Matchmaker waiting for a player, two
\* controllers running and the heartbeat suspended in its first database call; the
\* disconnect has been called.
C6_Witness ==
    /\ phase = "main" /\ nsig = 1 /\ disconnect_calls = 1
    /\ task[SERVER] = [st |-> "done", pos |-> "serve_forever", wake |-> "none",
                       res |-> "cancelled"]
    /\ task[GAMES] = [st |-> "done", pos |-> "get", wake |-> "none", res |-> "cancelled"]
    /\ task[HB] = [st |-> "done", pos |-> "create_or_update_game", wake |-> "none",
                   res |-> "cancelled"]
    /\ \A k \in 1..2 : task[C(k)] = [st |-> "done", pos |-> "running", wake |-> "none",
                                     res |-> "cancelled"]

\* C7: a signal handled after the first one, while _teardown awaits the
\* disconnect, leaves _start_serving as it was.
C7_SignalWhileTearingDownIsNoOp ==
    [][(Handled' > Handled /\ Handled >= 1 /\ task[MAIN].pos = "disconnect")
          => task'[MAIN] = task[MAIN]]_vars

\* C8: the process never ends with the persistence connection open.
C8_NeverEndsWithConnectionOpen ==
    phase = "closed" => ~db_open

\* C9: when the Acceptor task has ended with an error (and no signal came), the
\* disconnect is called only after every other task has stopped.
C9_CoreErrorCancelsBeforeDisconnect ==
    (task[SERVER].res = "error" /\ nsig = 0 /\ disconnect_calls >= 1)
        => \A t \in Tasks \ {MAIN} : ~Active(t)

\* C10 (as claimed): a player leaves the queue only as part of a full batch, so
\* every queued player that is in no batch is still on the queue.
C10_PartialStaysQueued ==
    Flat(batches) \o _player_queue = enqueued

\* C10 (amended): the Matchmaker takes each player off the queue as soon as it is
\* there and keeps those that do not yet fill a batch in the list it is building:
\* fewer than player_count of them, the players put last, in no launched batch,
\* while the queue is empty whenever the Matchmaker waits.
C10_PartialBatchHeld ==
    /\ Len(players) < player_count
    /\ \A j \in 1..Len(players) : \A k \in 1..Len(batches) :
          \A m \in 1..Len(batches[k]) : batches[k][m] # players[j]
    /\ task[GAMES].st = "waiting" =>
          /\ _player_queue = <<>>
          /\ Len(players) = Len(enqueued) % player_count
          /\ players = SubSeq(enqueued, Len(enqueued) - Len(players) + 1, Len(enqueued))

\* player_count = 2 and three players accepted: one batch, the two put first, is
\* launched; the third is in the list being built and the queue is empty.
C10_Witness ==
    /\ player_count = 2 /\ Len(enqueued) = 3 /\ task[GAMES].st = "waiting"
    /\ batches = <<SubSeq(enqueued, 1, 2)>>
    /\ players = <<enqueued[3]>>
    /\ _player_queue = <<>>

\* How far the handler of a connection has come: a hook is invoked by the step
\* that suspends the handler in it.
HookRank(p) ==
    CASE p = "start" -> 0
      [] p = "on_player_connected" -> 1
      [] p = "should_accept_player" -> 2
      [] p \in {"on_player_accepted", "on_player_rejected"} -> 3
      [] OTHER -> 4
Invoked(i, hook) == task'[H(i)].pos = hook /\ task[H(i)].pos # hook

\* C11: within one session the hooks are invoked in the order connected,
\* should-accept, then one of accepted and rejected: should-accept only by the
\* step in which connected returned, accepted only by the step in which
\* should-accept returned true, rejected only by the step in which it returned
\* false, and the handler never goes back to an earlier hook or from one of
\* accepted and rejected to the other.
C11_HooksInOrder ==
    [][\A i \in Conns :
          /\ HookRank(task'[H(i)].pos) >= HookRank(task[H(i)].pos)
          /\ Invoked(i, "on_player_connected") => task[H(i)].pos = "start"
          /\ Invoked(i, "should_accept_player") =>
                task[H(i)].pos = "on_player_connected" /\ task[H(i)].wake = "ok"
          /\ Invoked(i, "on_player_accepted") =>
                task[H(i)].pos = "should_accept_player" /\ task[H(i)].wake = "accept"
          /\ Invoked(i, "on_player_rejected") =>
                task[H(i)].pos = "should_accept_player" /\ task[H(i)].wake = "reject"]_vars

\* One session is in its accepted hook after should-accept returned true, another
\* in its rejected hook after should-accept returned false.
C11_Witness ==
    \E i, j \in Conns :
        /\ task[H(i)].pos = "on_player_accepted" /\ decision[i] = "accept"
        /\ task[H(j)].pos = "on_player_rejected" /\ decision[j] = "reject"

\* C12: when the connect of _initialize has not succeeded, _start_serving has
\* done nothing after calling it: the Acceptor, Matchmaker and heartbeat tasks do
\* not exist, no started hook was invoked, gather() was not called, and
\* _start_serving ends with the exception (the connect's error, or the
\* CancelledError of a signal that came with it), never normally.
C12_ConnectFailureIsFatal ==
    (connect_calls = 1 /\ ~db_open /\ disconnect_calls = 0
        /\ ~(task[MAIN].st = "waiting" /\ task[MAIN].pos = "connect")) =>
        /\ task[MAIN].pos = "connect"
        /\ \A t \in {SERVER, GAMES, HB} : task[t].st = "none"
        /\ startup = <<"add_signal_handler", "db.conn.connect">>
        /\ outer = "none"
        /\ IsDone(MAIN) => task[MAIN].res \in {"error", "cancelled"}
        /\ (IsDone(MAIN) /\ nsig = 0) => task[MAIN].res = "error"

\* The connect raised, no signal came, and asyncio.run() has ended with the error.
C12_Witness ==
    /\ phase = "closed" /\ nsig = 0 /\ connect_calls = 1 /\ ~db_open
    /\ task[MAIN] = [st |-> "done", pos |-> "connect", wake |-> "none", res |-> "error"]

\* C13: the step in which a controller task ends, normally or with an exception,
\* changes no other task, schedules nothing and leaves gather() pending; and
\* whatever the controllers do, no task is cancelled, none of _start_serving, the
\* Acceptor and the Matchmaker ends, and the teardown does not begin.
C13_ControllerFailureIsIsolated ==
    [][/\ \A k \in Conns :
            (task'[C(k)].st = "done" /\ task[C(k)].st # "done") =>
                /\ \A t \in Tasks \ {C(k)} : task'[t] = task[t]
                /\ ready' = Tail(ready)
                /\ outer' = outer
       /\ \A t \in Tasks : task'[t].wake # "cancelled" /\ task'[t].res # "cancelled"
       /\ \A t \in {MAIN, SERVER, GAMES} : task'[t].st # "done"
       /\ disconnect_calls' = 0 /\ outer' \in {"none", "pending"}]_vars

\* Controller 1 has raised and controller 2 is still running, and may never
\* finish; the Acceptor serves, the Matchmaker waits for a player and
\* _start_serving waits in gather().
C13_Witness ==
    /\ task[C(1)].res = "error"
    /\ task[C(2)] = Waiting("running")
    /\ task[SERVER] = Waiting("serve_forever")
    /\ task[GAMES] = Waiting("get")
    /\ task[MAIN] = Waiting("gather") /\ outer = "pending"

\* C14: controllers that never finish do not hold up the Matchmaker: when
\* connections keep arriving and being accepted, every full group of
\* player_count players is eventually handed to a _launch_game task, while no
\* controller of an earlier batch has finished.
C14_MatchmakerNeverWaitsForController ==
    <>(/\ Len(batches) = MaxConn \div player_count
       /\ \A k \in 1..Len(batches) : task[L(k)].st # "none"
       /\ \A k \in Conns : ~IsDone(C(k)))

\* The second batch is launched while the controller of the first is running.
C14_Witness ==
    /\ Len(batches) >= 2 /\ task[L(2)].st # "none"
    /\ task[C(1)] = Waiting("running")

\* What should_accept_player is to do and to return for the token read, the
\* answer of the database and the clock reading of a session.
ExpectedDecision(a) ==
    IF a.token = "" THEN "accept"
    ELSE IF a.user = "none" THEN "reject"
    ELSE IF a.expires < a.now THEN "reject"
    ELSE "accept"
ExpectedDialogue(a) ==
    <<"send(enter_token_prompt)", "readline">> \o
    (IF a.token = "" THEN <<"return True">>
     ELSE <<"select_by_play_token">> \o
          (IF a.user = "none" THEN <<"send(token_rejected_message)", "return False">>
           ELSE IF a.expires < a.now THEN <<"send(token_expired_message)", "return False">>
           ELSE <<"send(token_accepted_message)", "assign_db_user", "return True">>))

\* C15: once should_accept_player of OptionalAuthenticationMixin has returned,
\* it has done exactly this: an empty token is accepted without a lookup and
\* without a user attached; a token that is not found is rejected after the
\* rejected message; a token whose expiry is earlier than the clock is rejected
\* after the expired message, with no accepted message and no user attached; any
\* other token found is accepted after the accepted message and the user is
\* attached to the player.
C15_TokenDecision ==
    \A i \in Conns :
        decision[i] # "none" =>
            /\ decision[i] = ExpectedDecision(auth[i])
            /\ Len(auth[i].io) >= Len(ExpectedDialogue(auth[i]))
            /\ SubSeq(auth[i].io, 1, Len(ExpectedDialogue(auth[i]))) = ExpectedDialogue(auth[i])
            /\ auth[i].lookups = (IF auth[i].token = "" THEN 0 ELSE 1)
            /\ auth[i].db_user <=>
                  (auth[i].token # "" /\ auth[i].user = "found"
                      /\ auth[i].expires >= auth[i].now)

\* A token that expires exactly now has been accepted and its user attached.
C15_Witness ==
    \E i \in Conns :
        /\ auth[i].token = "token" /\ auth[i].user = "found"
        /\ auth[i].expires = auth[i].now
        /\ decision[i] = "accept" /\ auth[i].db_user

Occurrences(x, q) == Cardinality({j \in 1..Len(q) : q[j] = x})
IsQueued(i) == \E j \in 1..Len(enqueued) : enqueued[j] = i
AcceptedDialogue ==
    <<"return True", "send(identity)", "Server.on_player_accepted",
      "send(continuation_message)", "readline", "put">>

\* C18: Server.on_player_accepted is invoked at most once for a session, only
\* after should-accept returned true and straight after the identity output was
\* sent; a session on the queue got there straight after the identity output,
\* the one invocation of the base hook, its continuation prompt and its readline.
C18_AcceptedHookWrapsBase ==
    \A i \in Conns :
        LET io == auth[i].io IN
        /\ Occurrences("Server.on_player_accepted", io) <= 1
        /\ \A j \in 1..Len(io) :
              io[j] = "Server.on_player_accepted" =>
                  j > 2 /\ io[j - 1] = "send(identity)" /\ io[j - 2] = "return True"
        /\ IsQueued(i) =>
              /\ decision[i] = "accept"
              /\ Len(io) >= Len(AcceptedDialogue)
              /\ SubSeq(io, Len(io) - Len(AcceptedDialogue) + 1, Len(io)) = AcceptedDialogue

\* A player whose token was found and valid has been through both accepted
\* hooks and is on the queue.
C18_Witness ==
    \E i \in Conns :
        /\ IsQueued(i) /\ auth[i].db_user
        /\ Occurrences("Server.on_player_accepted", auth[i].io) = 1

\* C16: once a signal has been handled, _start_serving ends normally, after one
\* disconnect, and never with the CancelledError.
C16_SignalCancellationIsAbsorbed ==
    (IsDone(MAIN) /\ Handled >= 1) =>
        task[MAIN].res = "ok" /\ disconnect_calls = 1

\* a was done before b, and both were done.
Before(a, b, q) == \E j, k \in 1..Len(q) : j < k /\ q[j] = a /\ q[k] = b

\* C17: once the started hook of PingDatabaseMixin has created the heartbeat
\* task, it has called Server.on_server_started exactly once, after creating the
\* task, and has returned: _start_serving waits in gather() on the Acceptor and
\* the Matchmaker wherever the heartbeat is in its loop.
C17_StartedHookDoesNotBlock ==
    task[HB].st # "none" =>
        /\ Occurrences("Server.on_server_started", startup) = 1
        /\ Occurrences("create_task(_update_database_task)", startup) = 1
        /\ Before("create_task(_update_database_task)", "Server.on_server_started", startup)
        /\ Before("Server.on_server_started", "gather", startup)
        /\ task[MAIN] = Waiting("gather") /\ outer = "pending"

\* The heartbeat is asleep between two pings while _start_serving waits in
\* gather() and the Acceptor serves.
C17_Witness ==
    /\ task[HB] = Waiting("sleep")
    /\ task[MAIN] = Waiting("gather")
    /\ task[SERVER] = Waiting("serve_forever")
    /\ Occurrences("Server.on_server_started", startup) = 1

\* C19: the Acceptor and Matchmaker tasks exist only once db.conn.connect() has
\* returned and the queue has been made, in that order, and a started hook is
\* invoked only once both tasks have been created.
C19_StartupOrder ==
    /\ \A t \in {SERVER, GAMES} :
          task[t].st # "none" =>
              /\ db_open \/ disconnect_calls >= 1
              /\ Before("db.conn.connect", "asyncio.Queue", startup)
              /\ Before("asyncio.Queue", "create_task(_server_task)", startup)
              /\ Before("asyncio.Queue", "create_task(_start_game_task)", startup)
    /\ \A hook \in {"PingDatabaseMixin.on_server_started", "Server.on_server_started"} :
          Occurrences(hook, startup) >= 1 =>
              /\ Before("create_task(_server_task)", hook, startup)
              /\ Before("create_task(_start_game_task)", hook, startup)
              /\ task[SERVER].st # "none" /\ task[GAMES].st # "none"
    /\ task[HB].st # "none" => Occurrences("PingDatabaseMixin.on_server_started", startup) = 1

\* Start-up has gone through: connection open, both tasks created, then the hook.
C19_Witness ==
    /\ db_open /\ disconnect_calls = 0
    /\ startup = <<"add_signal_handler", "db.conn.connect", "asyncio.Queue",
                   "create_task(_server_task)", "create_task(_start_game_task)",
                   "PingDatabaseMixin.on_server_started",
                   "create_task(_update_database_task)", "Server.on_server_started",
                   "gather">>
    /\ task[SERVER].st = "ready" /\ task[GAMES].st = "ready" /\ task[HB].st = "ready"

\* C20: a player on the queue was accepted by should-accept, none of its hooks
\* raised, its handler ended at the put and nothing in _on_connection or
\* _accept_player closed it; a player that was rejected, whose hook raised a
\* connection reset or that was closed there is not on the queue; no player is
\* put on the queue twice.
C20_QueuedXorClosed ==
    \A i \in Conns :
        /\ IsQueued(i) =>
              /\ decision[i] = "accept" /\ hook_error[i] = <<"none", "none">>
              /\ task[H(i)] = [st |-> "done", pos |-> "on_player_accepted",
                               wake |-> "none", res |-> "ok"]
              /\ closes[i] = 0
        /\ (decision[i] = "reject" \/ hook_error[i][2] = "reset" \/ closes[i] >= 1)
              => ~IsQueued(i)
        /\ Occurrences(i, enqueued) <= 1

\* One player is on the queue and open; another was accepted by should-accept,
\* met a connection reset in its accepted hook and was closed, not queued.
C20_Witness ==
    \E i, j \in Conns :
        /\ IsQueued(i) /\ closes[i] = 0
        /\ decision[j] = "accept" /\ hook_error[j] = <<"on_player_accepted", "reset">>
        /\ closes[j] = 1 /\ IsDone(H(j)) /\ ~IsQueued(j)

====
